---- MODULE Spec2Model ----
(***************************************************************************)
(* State-machine model of ODE_PINN_SOFTBC (src/src/ode_PINN_softBC.py):    *)
(* construction, the soft-boundary residual loss, the public evaluation    *)
(* calls (Validate, Test, L2_error) and the training loop Train with its   *)
(* stopping rule and step-decay learning-rate schedule.                    *)
(*                                                                         *)
(* The network (forward + autograd) and the optimizer are external.  A     *)
(* network is represented by the quantities ResidualLoss reads from it:    *)
(*   yl = y(lb), dl = y'(lb), yu = y(ub), du = y'(ub),                     *)
(*   res = mean over a non-empty batch of (y'' - f(x,y,y'))^2.             *)
(* optimizer.step() replaces the network by any network of TrainNets.      *)
(* Losses are integers in an arbitrary unit; the learning rate is an       *)
(* integer in an arbitrary unit and lr_gamma is a fraction <<num, den>>.   *)
(***************************************************************************)
EXTENDS Integers, Sequences, FiniteSets, TLC

VARIABLES
    BC,              \* self.BC = (type, yl, yu)
    lambdas,         \* self.lambdas, Python index k is lambdas[k+1]
    net,             \* the network the current parameters compute
    nsteps,          \* number of optimizer.step() calls made so far
    train_loss,      \* self.train_loss, entries <<sum of batch losses, n_train_batches>>
    validate_loss,   \* self.validate_loss
    L2_loss,         \* self.L2_loss
    pc,              \* position of the Train invocation
    a,               \* arguments of the current / last Train invocation
    n_train_batches, \* Train local
    lr,              \* optimizer.param_groups[0]['lr']
    last_epoch,      \* scheduler.last_epoch
    epoch,           \* Train loop variable
    i,               \* mini-batch index inside the epoch
    acc,             \* Train local train_loss (running sum of batch losses)
    validate_num,    \* Train local validate_num
    err,             \* exception raised by the last Train invocation
    ret,             \* locals and return value of the last Validate/Test/L2_error call
    calls,           \* number of Train invocations
    changes,         \* number of optimizer steps that changed the network
    completed,       \* number of epochs that finished recording without raising
    completedL2      \* those of them run with compute_L2_loss set

vars == <<BC, lambdas, net, nsteps, train_loss, validate_loss, L2_loss, pc, a,
          n_train_batches, lr, last_epoch, epoch, i, acc, validate_num, err, ret,
          calls, changes, completed, completedL2>>

model_state == <<net, nsteps, train_loss, validate_loss, L2_loss>>

train_locals == <<a, n_train_batches, lr, last_epoch, epoch, i, acc, validate_num>>

(***************************************************************************)
(* Bounds of the model.                                                    *)
(***************************************************************************)
MaxCalls == 2
MaxNetChanges == 1
MaxTrainNum == 5
MaxEpochShort == 2
MaxEpochLong == 28
MaxHistory == 30
MaxWeight == 2

(***************************************************************************)
(* Program constants.                                                      *)
(***************************************************************************)
PlateauLen == 26
PlateauCount == 25
RelTolInv == 10000
ValidateDivisor == 3
ProgressDivisor == 5

(***************************************************************************)
(* Floating point: NaN is the only non-number the model needs (0/0 for an  *)
(* empty batch).  Every comparison with NaN is false.                      *)
(***************************************************************************)
NaN == -1

FAdd(x, y) == IF x = NaN \/ y = NaN THEN NaN ELSE x + y

FLt(x, y) == x # NaN /\ y # NaN /\ x < y

Abs(x) == IF x < 0 THEN -x ELSE x

\* Python round(n / d) for integers n >= 0, d > 0: nearest, ties to even.
RoundDiv(n, d) ==
    LET q == n \div d
        r == n % d
    IN  IF 2 * r < d THEN q
        ELSE IF 2 * r > d THEN q + 1
        ELSE IF q % 2 = 0 THEN q ELSE q + 1

\* len(DataLoader(dataset, batch_size)) with drop_last = False.
CeilDiv(n, d) == (n + d - 1) \div d

NoSol == "None"

(***************************************************************************)
(* ResidualLoss                                                            *)
(***************************************************************************)
\* Lp = ((D2y_hat - f_hat)**2).sum() / len(x) on a batch of n points.
InteriorLoss(n, nt) == IF n = 0 THEN NaN ELSE (n * nt.res) \div n

\* Mutant: kind 2 compares the value, not the derivative, at the upper end.
BoundaryTermsNoDerivative(bc, lam, nt) ==
    IF bc[1] \in {1, 2} THEN
        << lam[2] * (nt.yl - bc[2]) * (nt.yl - bc[2]),
           lam[3] * (nt.yu - bc[3]) * (nt.yu - bc[3]) >>
    ELSE
        << lam[2] * (nt.yl + nt.dl - bc[2]) * (nt.yl + nt.dl - bc[2]),
           lam[3] * (nt.du - bc[3]) * (nt.du - bc[3]) >>

\* The if / elif / else on self.BC[0]; the result is <<Lb1, Lb2>>.
BoundaryTerms(bc, lam, nt) ==
    IF bc[1] = 1 THEN
        << lam[2] * (nt.yl - bc[2]) * (nt.yl - bc[2]),
           lam[3] * (nt.yu - bc[3]) * (nt.yu - bc[3]) >>
    ELSE IF bc[1] = 2 THEN
        << lam[2] * (nt.yl - bc[2]) * (nt.yl - bc[2]),
           lam[3] * (nt.du - bc[3]) * (nt.du - bc[3]) >>
    ELSE
        << lam[2] * (nt.yl + nt.dl - bc[2]) * (nt.yl + nt.dl - bc[2]),
           lam[3] * (nt.du - bc[3]) * (nt.du - bc[3]) >>

\* The locals Lp, Lb1, Lb2 and the returned Lp + Lb1 + Lb2.
ResidualLoss(n, nt, bc, lam) ==
    LET Lp == InteriorLoss(n, nt)
        Lb == BoundaryTerms(bc, lam, nt)
    IN  [Lp |-> Lp, Lb1 |-> Lb[1], Lb2 |-> Lb[2],
         loss |-> FAdd(FAdd(Lp, Lb[1]), Lb[2])]

\* L2_error(true_sol): a value fixed by the network and the exact solution.
L2_error(nt, sol) == <<"L2", nt, sol>>

(***************************************************************************)
(* Stopping rule and scheduler                                             *)
(***************************************************************************)
\* One entry of temp_rel_validate_loss < 0.0001: |(older - newer) / newer|.
RelSmall(older, newer) ==
    /\ older # NaN
    /\ newer # NaN
    /\ Abs(older - newer) * RelTolInv < Abs(newer)

\* np.array(vl)[-1:-27:-1], np.diff, / temp[:25], (< 0.0001).sum() == 25.
Plateau(vl) ==
    LET n == Len(vl)
        temp(k) == vl[n - k]
    IN  Cardinality({k \in 0 .. PlateauCount - 1 :
                        RelSmall(temp(k + 1), temp(k))}) = PlateauCount

\* Mutant: the learning-rate branch is tested before the convergence test.
StopRuleDecayFirst(vl, abs_tolerance, cur_lr, min_lr) ==
    IF cur_lr > min_lr THEN "step"
    ELSE IF FLt(vl[Len(vl)], abs_tolerance) THEN "break"
    ELSE IF Len(vl) > PlateauLen /\ Plateau(vl) THEN "break"
    ELSE "continue"

\* Mutant: the scheduler is advanced whatever the learning rate.
StopRuleNoFloor(vl, abs_tolerance, cur_lr, min_lr) ==
    IF FLt(vl[Len(vl)], abs_tolerance) THEN "break"
    ELSE IF Len(vl) > PlateauLen THEN
        IF Plateau(vl) THEN "break" ELSE "continue"
    ELSE "step"

\* The if / elif / elif at the end of an epoch.
StopRule(vl, abs_tolerance, cur_lr, min_lr) ==
    IF FLt(vl[Len(vl)], abs_tolerance) THEN "break"
    ELSE IF Len(vl) > PlateauLen THEN
        IF Plateau(vl) THEN "break" ELSE "continue"
    ELSE IF cur_lr > min_lr THEN "step"
    ELSE "continue"

\* StepLR.step(): <<last_epoch, lr>> after the call.
StepLR(le, cur_lr, step_size, gamma) ==
    LET e == le + 1
    IN  << e, IF e % step_size = 0 THEN (cur_lr * gamma[1]) \div gamma[2] ELSE cur_lr >>

\* Mutant: the quotient is truncated instead of rounded.
ValidateNumFloor(train_num) == train_num \div ValidateDivisor

\* validate_num = round(train_num / 3)
ValidateNum(train_num) == RoundDiv(train_num, ValidateDivisor)

\* The progress display of a mini-batch step raises ZeroDivisionError.
ProgressRaises(display, k, n) ==
    display /\ k # 0 /\ RoundDiv(n, ProgressDivisor) = 0

\* Number of samples of mini-batch k.
BatchLen(k, train_num, batch_size) ==
    IF (k + 1) * batch_size <= train_num THEN batch_size
    ELSE train_num - k * batch_size

(***************************************************************************)
(* Input sets                                                              *)
(***************************************************************************)
Exact == [yl |-> 0, dl |-> 1, yu |-> 1, du |-> 1, res |-> 0]
Rough == [yl |-> 0, dl |-> 1, yu |-> 1, du |-> 1, res |-> 20000]
Rougher == [yl |-> 1, dl |-> 1, yu |-> 1, du |-> 1, res |-> 20000]

TrainNets == {Exact, Rough, Rougher}

AllNets == [yl : 0 .. 1, dl : 0 .. 1, yu : 0 .. 1, du : 0 .. 1, res : {0, 3}]

ShortArgs ==
    {x \in [train_num : 1 .. MaxTrainNum, train_batch_size : {2, 5},
             learning_rate : {64}, lr_step_size : {1}, min_lr : {32},
             lr_gamma : {<<1, 2>>}, abs_tolerance : {1},
             max_epoch : 1 .. MaxEpochShort, compute_L2_loss : BOOLEAN,
             true_sol : {NoSol, "sol"}, display : BOOLEAN] :
        x.compute_L2_loss \/ x.true_sol = NoSol}

LongArgs ==
    [train_num : {3}, train_batch_size : {3},
     learning_rate : {64}, lr_step_size : {1, 20}, min_lr : {16},
     lr_gamma : {<<1, 2>>}, abs_tolerance : {0, 1, 30000}, max_epoch : {2, MaxEpochLong},
     compute_L2_loss : {FALSE}, true_sol : {NoSol}, display : {FALSE}]

NoArgs ==
    [train_num |-> 1, train_batch_size |-> 1, learning_rate |-> 0,
     lr_step_size |-> 1, min_lr |-> 0, lr_gamma |-> <<1, 1>>, abs_tolerance |-> 0,
     max_epoch |-> 0, compute_L2_loss |-> FALSE, true_sol |-> NoSol,
     display |-> FALSE]

NoL2 == <<"L2">>

NoRet ==
    [op |-> "none", Lp |-> 0, Lb1 |-> 0, Lb2 |-> 0, loss |-> 0, l2 |-> NoL2,
     raised |-> "none"]

(***************************************************************************)
(* __init__                                                                *)
(***************************************************************************)
Construct(bc, lam, nt) ==
    /\ BC = bc
    /\ lambdas = lam
    /\ net = nt
    /\ nsteps = 0
    /\ train_loss = <<>>
    /\ validate_loss = <<>>
    /\ L2_loss = <<>>
    /\ pc = "idle"
    /\ a = NoArgs
    /\ n_train_batches = 0
    /\ lr = 0
    /\ last_epoch = 0
    /\ epoch = 0
    /\ i = 0
    /\ acc = 0
    /\ validate_num = 0
    /\ err = "none"
    /\ ret = NoRet
    /\ calls = 0
    /\ changes = 0
    /\ completed = 0
    /\ completedL2 = 0

Init == Construct(<<2, 0, 1>>, <<1, 1, 1>>, Rough)

InitLong == Construct(<<1, 0, 1>>, <<1, 1, 1>>, Rough)

InitLoss ==
    \E kind \in 1 .. 4, tl \in 0 .. 2, tu \in 0 .. 1,
       w1 \in 0 .. MaxWeight, w2 \in 0 .. MaxWeight, nt \in AllNets :
        Construct(<<kind, tl, tu>>, <<1, w1, w2>>, nt)

(***************************************************************************)
(* Train                                                                   *)
(***************************************************************************)
Returned == {"idle", "done", "error"}

\* for epoch in range(max_epoch): self.train(); train_loss = 0
EnterEpoch(e, max_epoch) ==
    IF e < max_epoch
    THEN /\ pc' = "batch"
         /\ epoch' = e
         /\ i' = 0
         /\ acc' = 0
    ELSE /\ pc' = "done"
         /\ UNCHANGED <<epoch, i, acc>>

\* Train(...) up to the first mini-batch.
Train(args) ==
    /\ pc \in Returned
    /\ calls' = calls + 1
    /\ a' = args
    /\ n_train_batches' = CeilDiv(args.train_num, args.train_batch_size)
    /\ lr' = args.learning_rate
    /\ last_epoch' = 0
    /\ err' = "none"
    /\ EnterEpoch(0, args.max_epoch)
    /\ ret' = NoRet
    /\ UNCHANGED <<BC, lambdas, model_state, validate_num, changes,
                   completed, completedL2>>

\* One mini-batch: forward, loss, backward, optimizer.step(), progress display.
BatchStep(nn) ==
    /\ pc = "batch"
    /\ LET loss == ResidualLoss(BatchLen(i, a.train_num, a.train_batch_size),
                                net, BC, lambdas).loss
       IN  acc' = FAdd(acc, loss)
    /\ net' = nn
    /\ changes' = IF nn # net THEN changes + 1 ELSE changes
    /\ nsteps' = nsteps + 1
    /\ IF ProgressRaises(a.display, i, n_train_batches)
       THEN pc' = "error" /\ err' = "ZeroDivisionError" /\ i' = i
       ELSE /\ err' = err
            /\ IF i + 1 < n_train_batches
               THEN pc' = "batch" /\ i' = i + 1
               ELSE pc' = "record" /\ i' = i
    /\ UNCHANGED <<BC, lambdas, train_loss, validate_loss, L2_loss, a,
                   n_train_batches, lr, last_epoch, epoch, validate_num, ret,
                   calls, completed, completedL2>>

\* Validate the model and record the epoch.
Record ==
    /\ pc = "record"
    /\ validate_num' = ValidateNum(a.train_num)
    /\ validate_loss' =
          Append(validate_loss,
                 ResidualLoss(ValidateNum(a.train_num), net, BC, lambdas).loss)
    /\ train_loss' = Append(train_loss, <<acc, n_train_batches>>)
    /\ IF a.compute_L2_loss /\ a.true_sol = NoSol
       THEN /\ pc' = "error"
            /\ err' = "TypeError"
            /\ UNCHANGED <<L2_loss, completed, completedL2>>
       ELSE /\ pc' = "decide"
            /\ err' = err
            /\ completed' = completed + 1
            /\ IF a.compute_L2_loss
               THEN /\ L2_loss' = Append(L2_loss, L2_error(net, a.true_sol))
                    /\ completedL2' = completedL2 + 1
               ELSE UNCHANGED <<L2_loss, completedL2>>
    /\ UNCHANGED <<BC, lambdas, net, nsteps, a, n_train_batches, lr, last_epoch,
                   epoch, i, acc, ret, calls, changes>>

\* The stopping rule, the scheduler step and the loop header.
Decide ==
    /\ pc = "decide"
    /\ LET r == StopRule(validate_loss, a.abs_tolerance, lr, a.min_lr)
           s == StepLR(last_epoch, lr, a.lr_step_size, a.lr_gamma)
       IN  IF r = "break"
           THEN pc' = "done" /\ UNCHANGED <<lr, last_epoch, epoch, i, acc>>
           ELSE /\ IF r = "step"
                   THEN last_epoch' = s[1] /\ lr' = s[2]
                   ELSE UNCHANGED <<lr, last_epoch>>
                /\ EnterEpoch(epoch + 1, a.max_epoch)
    /\ UNCHANGED <<BC, lambdas, model_state, a, n_train_batches, validate_num,
                   err, ret, calls, changes, completed, completedL2>>

(***************************************************************************)
(* Public evaluation calls                                                 *)
(***************************************************************************)
Evaluate(op, sample_num) ==
    /\ pc \in Returned
    /\ LET l == ResidualLoss(sample_num, net, BC, lambdas)
       IN  ret' = [op |-> op, Lp |-> l.Lp, Lb1 |-> l.Lb1, Lb2 |-> l.Lb2,
                   loss |-> l.loss, l2 |-> NoL2, raised |-> "none"]
    /\ UNCHANGED <<BC, lambdas, model_state, pc, train_locals, err, calls,
                   changes, completed, completedL2>>

Validate(sample_num) == Evaluate("Validate", sample_num)

Test(sample_num) == Evaluate("Test", sample_num)

L2Call(sol) ==
    /\ pc \in Returned
    /\ ret' = IF sol = NoSol
              THEN [NoRet EXCEPT !.op = "L2_error", !.raised = "TypeError"]
              ELSE [NoRet EXCEPT !.op = "L2_error", !.l2 = L2_error(net, sol)]
    /\ UNCHANGED <<BC, lambdas, model_state, pc, train_locals, err, calls,
                   changes, completed, completedL2>>

(***************************************************************************)
(* Specifications                                                          *)
(***************************************************************************)
\* What the environment is allowed to do: how often Train is called (a repeated
\* call passes the same arguments again) and how often the optimizer moves the
\* network to another one.
MayCall(args) == calls < MaxCalls /\ (calls = 0 \/ args = a)

MayCallLong(args) ==
    calls < MaxCalls /\ Len(validate_loss) + args.max_epoch <= MaxHistory

MayMove(nn, budget) == nn # net => changes < budget

Next ==
    \/ \E args \in ShortArgs : MayCall(args) /\ Train(args)
    \/ \E nn \in TrainNets : MayMove(nn, MaxNetChanges) /\ BatchStep(nn)
    \/ Record
    \/ Decide
    \/ \E n \in {2} : Validate(n)
    \/ \E n \in {2} : Test(n)
    \/ \E sol \in {NoSol, "sol"} : L2Call(sol)

Spec == Init /\ [][Next]_vars

NextLong ==
    \/ \E args \in LongArgs : MayCallLong(args) /\ Train(args)
    \/ \E nn \in TrainNets : MayMove(nn, MaxNetChanges) /\ BatchStep(nn)
    \/ Record
    \/ Decide

SpecLong == InitLong /\ [][NextLong]_vars

NextLoss ==
    \/ \E n \in 0 .. 2 : Validate(n)
    \/ \E n \in 0 .. 2 : Test(n)

SpecLoss == InitLoss /\ [][NextLoss]_vars

(***************************************************************************)
(* Properties                                                              *)
(***************************************************************************)
Running == {"batch", "record", "decide"}

LastOf(seq) == seq[Len(seq)]

IsPrefix(s, t) == Len(s) <= Len(t) /\ SubSeq(t, 1, Len(s)) = s

\* All 25 relative changes among the most recent 26 entries are below 1e-4.
TrailingChangesSmall(vl) ==
    \A k \in 1 .. PlateauCount :
        RelSmall(vl[Len(vl) - k], vl[Len(vl) - k + 1])

\* C1: at the end of every epoch after which training continues while the
\* learning rate is above min_lr, the scheduler is advanced by one epoch, and
\* the rate is multiplied by lr_gamma when that epoch count reaches a multiple
\* of lr_step_size, whatever the length of the validation-loss history.
C1_DecayWhileAboveFloor ==
    [][(pc = "decide" /\ pc' = "batch" /\ lr > a.min_lr)
        => /\ last_epoch' = last_epoch + 1
           /\ lr' = IF (last_epoch + 1) % a.lr_step_size = 0
                    THEN (lr * a.lr_gamma[1]) \div a.lr_gamma[2]
                    ELSE lr]_vars

\* C2: at the end of an epoch at which the validation-loss history holds at
\* least 26 entries, the latest is not below abs_tolerance and all 25 trailing
\* relative changes are below 1e-4, Train stops.
C2_PlateauStop ==
    [][(/\ pc = "decide"
        /\ Len(validate_loss) >= PlateauLen
        /\ ~FLt(LastOf(validate_loss), a.abs_tolerance)
        /\ TrailingChangesSmall(validate_loss))
        => pc' = "done"]_vars

\* C3: when the validation loss recorded at the end of an epoch is below
\* abs_tolerance, Train stops there, and a stopped invocation makes no further
\* optimizer step, learning-rate change or history append.
C3_ConvergenceStopsFirst ==
    [][/\ (pc = "decide" /\ FLt(LastOf(validate_loss), a.abs_tolerance))
            => (pc' = "done" /\ UNCHANGED <<model_state, lr, last_epoch>>)
       /\ (pc = "done" /\ calls' = calls)
            => UNCHANGED <<pc, model_state, lr, last_epoch>>]_vars

\* C3 witness: an invocation stopped by convergence before max_epoch, with the
\* learning rate still above the floor and a history longer than the plateau
\* window.
C3_Witness ==
    /\ pc = "done"
    /\ FLt(LastOf(validate_loss), a.abs_tolerance)
    /\ epoch + 1 < a.max_epoch
    /\ lr > a.min_lr
    /\ Len(validate_loss) > PlateauLen

\* C4: inside an invocation, once the learning rate is <= min_lr no step
\* advances the scheduler or changes the learning rate.
C4_LearningRateFloor ==
    [][(pc \in Running /\ lr <= a.min_lr)
        => (lr' = lr /\ last_epoch' = last_epoch)]_vars

\* C4 witness: the rate was decayed down to the floor and later epochs run
\* without the scheduler being advanced.
C4_Witness ==
    /\ pc = "batch"
    /\ lr <= a.min_lr
    /\ lr < a.learning_rate
    /\ last_epoch > 0
    /\ epoch > last_epoch + 1

\* C5: the histories are empty until the first Train call; train-loss and
\* validation-loss histories always have as many entries as epochs were
\* completed, the L2 history as many as epochs completed with compute_L2_loss
\* set; every step only appends (at most one entry) to each history.
C5_HistoryInvariant ==
    [][/\ calls = 0 => (train_loss = <<>> /\ validate_loss = <<>> /\ L2_loss = <<>>)
       /\ Len(train_loss') = completed'
       /\ Len(validate_loss') = completed'
       /\ Len(L2_loss') = completedL2'
       /\ IsPrefix(train_loss, train_loss')
       /\ IsPrefix(validate_loss, validate_loss')
       /\ IsPrefix(L2_loss, L2_loss')
       /\ Len(train_loss') <= Len(train_loss) + 1
       /\ Len(validate_loss') <= Len(validate_loss) + 1
       /\ Len(L2_loss') <= Len(L2_loss) + 1]_vars

KnownKinds == {1, 2, 3}

\* C6: with a boundary-condition kind outside {1, 2, 3} an evaluation of the
\* loss raises ConfigurationError instead of returning a value.
C6_UnknownKindRaises ==
    (BC[1] \notin KnownKinds /\ ret.op \in {"Validate", "Test"})
        => ret.raised = "ConfigurationError"

\* C7: a Train invocation with compute_L2_loss set and no exact solution ends
\* in an error at once: no step into or inside such an invocation does
\* anything but raise, and none changes the network or a history.
C7_ImmediateContractError ==
    [][(/\ a'.compute_L2_loss
        /\ a'.true_sol = NoSol
        /\ (calls' # calls \/ pc \in Running))
        => (pc' = "error" /\ UNCHANGED model_state)]_vars

\* C8: a mini-batch step of a run raises exactly if the same step of the run
\* that differs only in the display flag raises (both runs are in the same
\* state before the step, so they stay in step or part here).
C8_DisplayIrrelevant ==
    [][pc = "batch"
        => ((pc' = "error")
                <=> ProgressRaises(~a.display, i, n_train_batches))]_vars

\* The endpoint quantities of the network equal the targets of the kind.
EndpointsMatch ==
    CASE BC[1] = 1 -> net.yl = BC[2] /\ net.yu = BC[3]
      [] BC[1] = 2 -> net.yl = BC[2] /\ net.du = BC[3]
      [] OTHER -> net.yl + net.dl = BC[2] /\ net.du = BC[3]

C10_ValidateBatchFloor ==
    pc = "decide" => validate_num = a.train_num \div ValidateDivisor

\* C10 amended: the validation batch has round(train_num / 3) samples, which
\* is floor(train_num / 3) + 1 when train_num mod 3 = 2.
C10_ValidateBatchRounded ==
    pc = "decide"
        => validate_num = IF a.train_num % 3 = 2
                          THEN a.train_num \div 3 + 1
                          ELSE a.train_num \div 3

\* C10 witness: an epoch validated with train_num mod 3 = 2.
C10_Witness ==
    /\ pc = "decide"
    /\ a.train_num % 3 = 2
    /\ validate_num = a.train_num \div 3 + 1

====
